---- MODULE Spec2Model ----
(***************************************************************************)
(* Trip duty-cycle scheduler of spotter-trips-backend: the stop planner    *)
(* (services/route_service.py), the ELD log builder                        *)
(* (services/eld_service.py) and the HOS compliance checker                *)
(* (services/hos_calculator.py), driven in the order of                    *)
(* RouteCalculationView.post (api/views.py).                               *)
(*                                                                         *)
(* Time is counted in ticks.  One tick is the resolution of the clock      *)
(* (datetime.resolution in the source); an hour is TicksPerHour ticks.     *)
(* Absolute times are ticks since 00:00:00 of the day the request arrives, *)
(* so the calendar date of a time t is t \div TicksPerDay.  Distances are  *)
(* whole miles.  All inputs are chosen so that the source's float          *)
(* arithmetic is exact on them.                                            *)
(***************************************************************************)
EXTENDS Integers, Sequences, FiniteSets, TLC

(* ------------------------------ units --------------------------------- *)
TicksPerHour == 100
TicksPerDay == 24 * TicksPerHour
Resolution == 1

(* --------------------------- utils/constants.py ------------------------ *)
DAILY_DRIVE_LIMIT == 11
DAILY_DUTY_LIMIT == 14
WEEKLY_LIMIT == 70
FUEL_STOP_INTERVAL == 1000
AVERAGE_SPEED == 55
PICKUP_DURATION == 1 * TicksPerHour
DROPOFF_DURATION == 1 * TicksPerHour
FUEL_STOP_DURATION == TicksPerHour \div 2
REST_DURATION == 10 * TicksPerHour
CYCLE_EXCEEDED == "Weekly cycle limit exceeded"
MULTI_DAY == "Trip requires multi-day planning with mandatory rest periods"
DRIVE_LIMIT_MSG == "Trip requires hours of driving, exceeding daily limit"
DUTY_LIMIT_MSG == "Trip requires hours of duty, exceeding daily limit"

(* ------------------------------ bounds -------------------------------- *)
MaxRouteMiles == 2200
MaxRouteHalfHours == 80
MaxStartHour == 23
MaxActivityHours == 50
MaxSplitDays == 6

(* Route distances (miles): around every multiple of the 605-mile driving  *)
(* segment and of the 1000-mile fuel interval, plus the spec's scenarios.  *)
Distances ==
    {m \in 0..MaxRouteMiles :
        \/ m % (AVERAGE_SPEED * 11) \in {0, 1}
        \/ m % FUEL_STOP_INTERVAL \in {0, 1}
        \/ m \in {604, 1300, 2200, MaxRouteMiles}}

(* Route durations (ticks), in half hours.                                 *)
Durations ==
    {h * (TicksPerHour \div 2) : h \in
        {k \in 0..MaxRouteHalfHours :
            k \in {0, 1, 10, 22, 23, 24, 30, 50, 80, MaxRouteHalfHours}}}

(* Wall-clock instants datetime.now() may return, on day 0.                *)
StartTimes ==
    {h * TicksPerHour : h \in {k \in 0..MaxStartHour : k \in {0, 9, MaxStartHour}}}
        \cup {TicksPerDay - 50, TicksPerDay - Resolution}

CycleUsed == {0, 10, 45, 56, 57, 68, 70}

VARIABLES pc, request, response, fault, feasibility, cycle_used, route, stops,
          fuel_stops, all_stops, i, current_time, current_log, daily_logs,
          hos_status, frame

vars == <<pc, request, response, fault, feasibility, cycle_used, route, stops,
          fuel_stops, all_stops, i, current_time, current_log, daily_logs,
          hos_status, frame>>

(* ------------------------------ helpers ------------------------------- *)
Min(a, b) == IF a <= b THEN a ELSE b

RECURSIVE SelectSeqBy(_, _)
SelectSeqBy(s, T) ==
    IF s = <<>> THEN <<>>
    ELSE IF Head(s).type \in T THEN <<Head(s)>> \o SelectSeqBy(Tail(s), T)
    ELSE SelectSeqBy(Tail(s), T)

(* datetime.date(): the calendar day a time falls on                       *)
Date(t) == t \div TicksPerDay

(* dataclass Stop.  mile is the mile marker the stop is anchored to (the   *)
(* argument of interpolate_route_position, printed in a fuel stop's        *)
(* description); pickup and dropoff are anchored to waypoints.             *)
Stop(type, address, duration, mile) ==
    [type |-> type, address |-> address, duration |-> duration, mile |-> mile]

(* ------------------------- utils/helpers.py ---------------------------- *)
FuelStopDue_Inclusive(current_mile, route_distance) == current_mile <= route_distance

(* the test guarding fuel_stops.append                                     *)
FuelStopDue(current_mile, route_distance) == current_mile < route_distance

RECURSIVE FuelLoop(_, _, _)
FuelLoop(current_mile, route_distance, acc) ==
    IF current_mile < route_distance
    THEN LET next == current_mile + FUEL_STOP_INTERVAL
         IN  FuelLoop(next, route_distance,
                      IF FuelStopDue(next, route_distance)
                      THEN Append(acc, next) ELSE acc)
    ELSE acc

calculate_fuel_stops(route_distance) == FuelLoop(0, route_distance, <<>>)

(* ---------------------- services/route_service.py ---------------------- *)
MaxDriveDistance_DutyLimit == AVERAGE_SPEED * DAILY_DUTY_LIMIT

(* max_drive_distance: the miles driven in 11 hours                        *)
MaxDriveDistance == AVERAGE_SPEED * 11

NeedsRestStop_Inclusive(distance_traveled, distance) == distance_traveled <= distance

(* "If we haven't reached the destination, add rest stop"                  *)
NeedsRestStop(distance_traveled, distance) == distance_traveled < distance

RECURSIVE RestLoop(_, _, _, _)
RestLoop(remaining_distance, distance_traveled, distance, acc) ==
    IF remaining_distance > 0
    THEN LET max_drive_distance == MaxDriveDistance
             drive_distance == Min(max_drive_distance, remaining_distance)
             traveled == distance_traveled + drive_distance
         IN  RestLoop(remaining_distance - drive_distance, traveled, distance,
                      IF NeedsRestStop(traveled, distance)
                      THEN Append(acc, Stop("rest", "Rest Area", REST_DURATION, traveled))
                      ELSE acc)
    ELSE acc

calculate_rest_stops(r) ==
    RestLoop(r.distance, 0, r.distance,
             <<Stop("pickup", "Pickup Location", PICKUP_DURATION, 0)>>)
      \o <<Stop("dropoff", "Dropoff Location", DROPOFF_DURATION, r.distance)>>

RECURSIVE FuelStopsFrom(_)
FuelStopsFrom(markers) ==
    IF markers = <<>> THEN <<>>
    ELSE <<Stop("fuel", "Fuel Stop", FUEL_STOP_DURATION, Head(markers))>>
            \o FuelStopsFrom(Tail(markers))

calculate_fuel_stop_list(r) == FuelStopsFrom(calculate_fuel_stops(r.distance))

(* ----------------------- utils/data_classes.py ------------------------- *)
(* dataclass ELDEntry.  src is an auxiliary history field, absent from the *)
(* source: the index in all_stops of the loop iteration of generate_logs   *)
(* that appended the entry.                                                *)
ELDEntry(status, start_time, end_time, location, duration, src) ==
    [status |-> status, start_time |-> start_time, end_time |-> end_time,
     location |-> location, duration |-> duration, src |-> src]

DailyLog(date) ==
    [date |-> date, entries |-> <<>>, total_drive_time |-> 0, total_duty_time |-> 0]

add_entry_DutyWithoutDriving(log, entry) ==
    [log EXCEPT !.entries = Append(@, entry),
                !.total_drive_time =
                    IF entry.status = "driving" THEN @ + entry.duration ELSE @,
                !.total_duty_time =
                    IF entry.status = "on_duty" THEN @ + entry.duration ELSE @]

add_entry(log, entry) ==
    [log EXCEPT !.entries = Append(@, entry),
                !.total_drive_time =
                    IF entry.status = "driving" THEN @ + entry.duration ELSE @,
                !.total_duty_time =
                    IF entry.status \in {"driving", "on_duty"}
                    THEN @ + entry.duration ELSE @]

(* ----------------------- services/eld_service.py ----------------------- *)
merge_and_sort_stops_RestBeforeFuel(ss, fs) ==
    SelectSeqBy(ss, {"pickup"}) \o SelectSeqBy(ss, {"rest"}) \o fs
        \o SelectSeqBy(ss, {"dropoff"})

merge_and_sort_stops(ss, fs) ==
    SelectSeqBy(ss, {"pickup"}) \o fs \o SelectSeqBy(ss, {"rest"})
        \o SelectSeqBy(ss, {"dropoff"})

calculate_drive_time_between_stops_DropoffFirst(prev_stop, current_stop, r) ==
    LET total_stops == 5
        segment_time == r.duration \div total_stops
    IN  IF current_stop.type = "dropoff" THEN (segment_time * 3) \div 10
        ELSE IF prev_stop.type = "pickup" THEN (segment_time * 2) \div 10
        ELSE (segment_time * 5) \div 10

calculate_drive_time_between_stops(prev_stop, current_stop, r) ==
    LET total_stops == 5
        segment_time == r.duration \div total_stops
    IN  IF prev_stop.type = "pickup" THEN (segment_time * 2) \div 10
        ELSE IF current_stop.type = "dropoff" THEN (segment_time * 3) \div 10
        ELSE (segment_time * 5) \div 10

EndOfDay_Midnight(t) == (Date(t) + 1) * TicksPerDay

(* datetime.combine(current_time.date(), datetime.max.time())              *)
EndOfDay(t) == Date(t) * TicksPerDay + (TicksPerDay - Resolution)

StartOfNextDay_SkipsDay(t) == (Date(t) + 2) * TicksPerDay

(* datetime.combine(current_time.date() + timedelta(days=1), min.time())   *)
StartOfNextDay(t) == (Date(t) + 1) * TicksPerDay

(* The cursor the builder threads through its helpers.                     *)
Cursor(t, log, logs) == [current_time |-> t, current_log |-> log, daily_logs |-> logs]

RemainingAfterDay_LessGap(remaining_time, time_in_day) ==
    remaining_time - time_in_day - Resolution

RemainingAfterDay_NoProgress(remaining_time, time_in_day) == remaining_time

(* remaining_time -= time_in_day                                           *)
RemainingAfterDay(remaining_time, time_in_day) == remaining_time - time_in_day

(* The day-splitting while loop, shared verbatim by _add_driving_entry and *)
(* _add_stop_entry.                                                        *)
RECURSIVE DaySplitLoop(_, _, _, _, _)
DaySplitLoop(c, remaining_time, status, location, src) ==
    IF remaining_time > 0
    THEN LET end_of_day == EndOfDay(c.current_time)
             time_in_day == end_of_day - c.current_time
         IN  IF time_in_day >= remaining_time
             THEN DaySplitLoop(
                     Cursor(c.current_time + remaining_time,
                            add_entry(c.current_log,
                                      ELDEntry(status, c.current_time,
                                               c.current_time + remaining_time,
                                               location, remaining_time, src)),
                            c.daily_logs),
                     0, status, location, src)
             ELSE DaySplitLoop(
                     Cursor(StartOfNextDay(c.current_time),
                            DailyLog(Date(StartOfNextDay(c.current_time))),
                            Append(c.daily_logs,
                                   add_entry(c.current_log,
                                             ELDEntry(status, c.current_time,
                                                      end_of_day, location,
                                                      time_in_day, src)))),
                     RemainingAfterDay(remaining_time, time_in_day),
                     status, location, src)
    ELSE c

AddActivity_CursorNotAdvanced(c, duration, status, location, src) ==
    LET end_time == c.current_time + duration
    IN  IF Date(c.current_time) # Date(end_time)
        THEN DaySplitLoop(c, duration, status, location, src)
        ELSE Cursor(c.current_time,
                    add_entry(c.current_log,
                              ELDEntry(status, c.current_time, end_time,
                                       location, duration, src)),
                    c.daily_logs)

(* Body shared by the two helpers: split when the activity ends on another *)
(* date, one entry otherwise.                                              *)
AddActivity(c, duration, status, location, src) ==
    LET end_time == c.current_time + duration
    IN  IF Date(c.current_time) # Date(end_time)
        THEN DaySplitLoop(c, duration, status, location, src)
        ELSE Cursor(end_time,
                    add_entry(c.current_log,
                              ELDEntry(status, c.current_time, end_time,
                                       location, duration, src)),
                    c.daily_logs)

add_driving_entry(c, drive_time, location, src) ==
    AddActivity(c, drive_time, "driving", location, src)

StopStatus_FuelOffDuty(type) ==
    IF type \in {"pickup", "dropoff"} THEN "on_duty"
    ELSE IF type = "rest" THEN "sleeper"
    ELSE "off_duty"

StopStatus(type) ==
    IF type \in {"pickup", "dropoff", "fuel"} THEN "on_duty"
    ELSE IF type = "rest" THEN "sleeper"
    ELSE "off_duty"

add_stop_entry(c, stop, src) ==
    AddActivity(c, stop.duration, StopStatus(stop.type), stop.address, src)

(* ---------------------- services/hos_calculator.py --------------------- *)
RECURSIVE OnDutyStopTime(_)
OnDutyStopTime(ss) ==
    IF ss = <<>> THEN 0
    ELSE (IF Head(ss).type \in {"pickup", "dropoff", "fuel"}
          THEN Head(ss).duration ELSE 0) + OnDutyStopTime(Tail(ss))

calculate_estimated_duty_time_Uncapped(r, ss) == r.duration + OnDutyStopTime(ss)

calculate_estimated_duty_time(r, ss) ==
    Min(r.duration + OnDutyStopTime(ss), DAILY_DUTY_LIMIT * TicksPerHour)

check_violations_AtLimit(cu, r, drive_time, duty_time) ==
    (IF cu * TicksPerHour + duty_time >= WEEKLY_LIMIT * TicksPerHour
     THEN <<CYCLE_EXCEEDED>> ELSE <<>>)
    \o (IF drive_time > DAILY_DRIVE_LIMIT * TicksPerHour
        THEN <<DRIVE_LIMIT_MSG>> ELSE <<>>)
    \o (IF duty_time > DAILY_DUTY_LIMIT * TicksPerHour
        THEN <<DUTY_LIMIT_MSG>> ELSE <<>>)
    \o (IF r.duration > DAILY_DRIVE_LIMIT * TicksPerHour
        THEN <<MULTI_DAY>> ELSE <<>>)

check_violations(cu, r, drive_time, duty_time) ==
    (IF cu * TicksPerHour + duty_time > WEEKLY_LIMIT * TicksPerHour
     THEN <<CYCLE_EXCEEDED>> ELSE <<>>)
    \o (IF drive_time > DAILY_DRIVE_LIMIT * TicksPerHour
        THEN <<DRIVE_LIMIT_MSG>> ELSE <<>>)
    \o (IF duty_time > DAILY_DUTY_LIMIT * TicksPerHour
        THEN <<DUTY_LIMIT_MSG>> ELSE <<>>)
    \o (IF r.duration > DAILY_DRIVE_LIMIT * TicksPerHour
        THEN <<MULTI_DAY>> ELSE <<>>)

HOSStatus(cu, remaining, drive, duty, violations) ==
    [cycle_used |-> cu, remaining_hours |-> remaining, drive_time_today |-> drive,
     duty_time_today |-> duty, violations |-> violations]

calculate_compliance(cu, r, ss) ==
    LET remaining_hours == WEEKLY_LIMIT - cu
        estimated_drive_time == Min(r.duration, DAILY_DRIVE_LIMIT * TicksPerHour)
        estimated_duty_time == calculate_estimated_duty_time(r, ss)
    IN  HOSStatus(cu, remaining_hours, estimated_drive_time, estimated_duty_time,
                  check_violations(cu, r, estimated_drive_time, estimated_duty_time))

MULTI_DAY_REASON == "Trip requires multi-day planning"
INSUFFICIENT_REASON == "Insufficient hours in current cycle"

calculate_available_drive_time(cu) ==
    LET remaining_weekly_hours == (WEEKLY_LIMIT - cu) * TicksPerHour
    IN  [daily_limit |-> DAILY_DRIVE_LIMIT * TicksPerHour,
         weekly_remaining |-> remaining_weekly_hours,
         effective_limit |-> Min(DAILY_DRIVE_LIMIT * TicksPerHour, remaining_weekly_hours),
         duty_limit |-> DAILY_DUTY_LIMIT * TicksPerHour]

IsFeasible_Strict(route_duration, effective_limit) == route_duration < effective_limit

(* is_feasible = route_duration <= available_time['effective_limit']       *)
IsFeasible(route_duration, effective_limit) == route_duration <= effective_limit

(* The result dict; 'reason' and 'recommendation' are keys of an           *)
(* infeasible result only.                                                 *)
validate_trip_feasibility(cu, route_duration) ==
    LET available_time == calculate_available_drive_time(cu)
        is_feasible == IsFeasible(route_duration, available_time.effective_limit)
        result == [feasible |-> is_feasible,
                   required_drive_time |-> route_duration,
                   available_drive_time |-> available_time.effective_limit,
                   requires_rest |-> route_duration > DAILY_DRIVE_LIMIT * TicksPerHour]
    IN  IF ~is_feasible
        THEN IF route_duration > DAILY_DRIVE_LIMIT * TicksPerHour
             THEN result @@ [reason |-> MULTI_DAY_REASON,
                             recommendation |-> "Plan mandatory rest periods"]
             ELSE result @@ [reason |-> INSUFFICIENT_REASON,
                             recommendation |->
                                 "Wait for cycle reset or reduce trip scope"]
        ELSE result

(* ----------------------------- api/views.py ---------------------------- *)
required_fields == <<"current_location", "pickup_location", "dropoff_location", "cycle_used">>

RequiredFieldSet == {required_fields[k] : k \in 1..Len(required_fields)}

(* request.data: the fields present and the value sent as cycle_used       *)
Request(present, cu) == [present |-> present, cycle_used |-> cu]

(* The first required field the request lacks, "" when it has them all.    *)
RECURSIVE FirstMissing(_, _)
FirstMissing(fields, present) ==
    IF fields = <<>> THEN ""
    ELSE IF Head(fields) \notin present THEN Head(fields)
    ELSE FirstMissing(Tail(fields), present)

Exception(type, msg) == [type |-> type, msg |-> msg]

CYCLE_RANGE_MSG == "Cycle used must be between 0 and 70 hours"
MISSING_FIELD_MSG == "Missing required field"
GENERIC_ERROR == "Internal server error during route calculation"

TripRequestValid_Exclusive(cu) == 0 < cu /\ cu < 70

(* TripRequest.__post_init__: the test that lets construction succeed      *)
TripRequestValid(cu) == 0 <= cu /\ cu <= 70

ELDServiceRaise_Passthrough(e) == e

(* The handlers that end calculate_route, generate_logs and                *)
(* calculate_compliance: whatever was raised inside leaves as a plain      *)
(* Exception carrying a description.                                       *)
RouteServiceRaise(e) == Exception("Exception", "Route calculation failed")

ELDServiceRaise(e) == Exception("Exception", "Could not generate ELD logs")

HOSCalculatorRaise(e) == Exception("Exception", "Could not calculate HOS compliance")

Response(status, error, field, body) ==
    [status |-> status, error |-> error, field |-> field, body |-> body]

ExceptionResponse_NoValueErrorClause(e) == Response(500, GENERIC_ERROR, "", <<>>)

(* The two except clauses of post.                                         *)
ExceptionResponse(e) ==
    IF e.type = "ValueError"
    THEN Response(400, e.msg, "", <<>>)
    ELSE Response(500, GENERIC_ERROR, "", <<>>)

(* dataclass RouteResponse, as to_dict() renders it                        *)
RouteResponse(r, ss, fs, logs, status) ==
    [route |-> r, stops |-> ss, fuel_stops |-> fs, eld_logs |-> logs,
     hos_status |-> status]

(* ------------------------------ the machine ---------------------------- *)
NoRoute == [distance |-> 0, duration |-> 0]
NoStatus == HOSStatus(0, 0, 0, 0, <<>>)
NoResponse == Response(0, "", "", <<>>)
NoFault == [stage |-> "none", type |-> "none"]
(* The locals of a helper's loop; they live only while the helper runs.   *)
Frame(drive_time, remaining_time, remaining_distance, distance_traveled) ==
    [drive_time |-> drive_time, remaining_time |-> remaining_time,
     remaining_distance |-> remaining_distance,
     distance_traveled |-> distance_traveled]

NoFrame == Frame(0, 0, 0, 0)

NoFeasibility == <<>>

(* Requests: complete ones with a valid or an invalid cycle_used, and ones *)
(* lacking one required field.                                             *)
RawCycleUsed == CycleUsed \cup {-50, -1, 71, 200}

Requests ==
    {Request(RequiredFieldSet, cu) : cu \in RawCycleUsed}
        \cup {Request(RequiredFieldSet \ {f}, 45) : f \in RequiredFieldSet}
        \cup {Request(RequiredFieldSet \ {"pickup_location"}, 71),
              Request({}, 45)}

(* What may be raised inside a service before its handler rewraps it.      *)
InternalFaults == {"ValueError", "KeyError"}

Init ==
    /\ pc = "post"
    /\ request \in Requests
    /\ response = NoResponse
    /\ fault = NoFault
    /\ feasibility = NoFeasibility
    /\ cycle_used = 0
    /\ route = NoRoute
    /\ stops = <<>>
    /\ fuel_stops = <<>>
    /\ all_stops = <<>>
    /\ i = 0
    /\ current_time = 0
    /\ current_log = DailyLog(0)
    /\ daily_logs = <<>>
    /\ hos_status = NoStatus
    /\ frame = NoFrame

(* post up to the construction of the TripRequest: the required-field      *)
(* check, then TripRequest(...), whose ValueError the first except clause  *)
(* answers.                                                                *)
Post ==
    /\ pc = "post"
    /\ LET missing == FirstMissing(required_fields, request.present)
       IN  IF missing # ""
           THEN /\ response' = Response(400, MISSING_FIELD_MSG, missing, <<>>)
                /\ pc' = "responded"
                /\ UNCHANGED cycle_used
           ELSE IF ~TripRequestValid(request.cycle_used)
           THEN /\ response' = ExceptionResponse(Exception("ValueError", CYCLE_RANGE_MSG))
                /\ pc' = "responded"
                /\ UNCHANGED cycle_used
           ELSE /\ cycle_used' = request.cycle_used
                /\ pc' = "calculate_route"
                /\ UNCHANGED response
    /\ UNCHANGED <<request, fault, feasibility, route, stops, fuel_stops, all_stops,
                   i, current_time, current_log, daily_logs, hos_status>>
    /\ UNCHANGED frame

(* RouteService.calculate_route: the routing provider answers with a       *)
(* distance and a duration, then the stops are planned.                    *)
CalculateRoute ==
    /\ pc = "calculate_route"
    /\ \E d \in Distances, h \in Durations :
          LET r == [distance |-> d, duration |-> h]
          IN  /\ route' = r
              /\ stops' = calculate_rest_stops(r)
              /\ fuel_stops' = calculate_fuel_stop_list(r)
    /\ pc' = "generate_logs"
    /\ UNCHANGED <<request, response, fault, feasibility, cycle_used, all_stops, i,
                   current_time, current_log, daily_logs, hos_status>>
    /\ UNCHANGED frame

(* calculate_route raising: geocoding, the routing provider or the stop    *)
(* planner failed.                                                         *)
CalculateRouteFails ==
    /\ pc = "calculate_route"
    /\ \E stage \in {"geocoding", "routing", "stop_planning"}, t \in InternalFaults :
          /\ fault' = [stage |-> stage, type |-> t]
          /\ response' = ExceptionResponse(RouteServiceRaise(Exception(t, stage)))
    /\ pc' = "responded"
    /\ UNCHANGED <<request, feasibility, cycle_used, route, stops, fuel_stops,
                   all_stops, i, current_time, current_log, daily_logs, hos_status>>
    /\ UNCHANGED frame

(* ELDService.generate_logs up to the loop: read the clock, open the first *)
(* log, merge the stops.                                                   *)
GenerateLogsBegin ==
    /\ pc = "generate_logs"
    /\ \E start_time \in StartTimes :
          /\ current_time' = start_time
          /\ current_log' = DailyLog(Date(start_time))
    /\ daily_logs' = <<>>
    /\ all_stops' = merge_and_sort_stops(stops, fuel_stops)
    /\ i' = 1
    /\ pc' = "drive"
    /\ UNCHANGED <<request, response, fault, feasibility, cycle_used, route, stops,
                   fuel_stops, hos_status>>
    /\ UNCHANGED frame

(* Loop body, first half: the drive to stop i.                             *)
AddDrivingEntry ==
    /\ pc = "drive"
    /\ i <= Len(all_stops)
    /\ LET drive_time ==
               IF i = 1 THEN 0
               ELSE calculate_drive_time_between_stops(all_stops[i - 1],
                                                       all_stops[i], route)
           c == IF drive_time > 0
                THEN add_driving_entry(
                        Cursor(current_time, current_log, daily_logs),
                        drive_time, all_stops[i - 1].address, i)
                ELSE Cursor(current_time, current_log, daily_logs)
       IN  /\ current_time' = c.current_time
           /\ current_log' = c.current_log
           /\ daily_logs' = c.daily_logs
    /\ pc' = "stop"
    /\ UNCHANGED <<request, response, fault, feasibility, cycle_used, route, stops,
                   fuel_stops, all_stops, i, hos_status>>
    /\ UNCHANGED frame

(* Loop body, second half: the activity at stop i.                         *)
AddStopEntry ==
    /\ pc = "stop"
    /\ LET c == add_stop_entry(Cursor(current_time, current_log, daily_logs),
                               all_stops[i], i)
       IN  /\ current_time' = c.current_time
           /\ current_log' = c.current_log
           /\ daily_logs' = c.daily_logs
    /\ i' = i + 1
    /\ pc' = IF i = Len(all_stops) THEN "final_log" ELSE "drive"
    /\ UNCHANGED <<request, response, fault, feasibility, cycle_used, route, stops,
                   fuel_stops, all_stops, hos_status>>
    /\ UNCHANGED frame

(* generate_logs after the loop: the open log is returned if non-empty.    *)
FinishLogs ==
    /\ pc = "final_log"
    /\ daily_logs' = IF current_log.entries # <<>>
                     THEN Append(daily_logs, current_log) ELSE daily_logs
    /\ pc' = "compliance"
    /\ UNCHANGED <<request, response, fault, feasibility, cycle_used, route, stops,
                   fuel_stops, all_stops, i, current_time, current_log, hos_status>>
    /\ UNCHANGED frame

(* generate_logs raising anywhere in its try block: the logs built so far  *)
(* are dropped with the frame.                                             *)
GenerateLogsFails ==
    /\ pc \in {"generate_logs", "drive", "stop", "final_log"}
    /\ \E t \in InternalFaults :
          /\ fault' = [stage |-> "log_building", type |-> t]
          /\ response' = ExceptionResponse(ELDServiceRaise(Exception(t, "log_building")))
    /\ pc' = "responded"
    /\ UNCHANGED <<request, feasibility, cycle_used, route, stops, fuel_stops,
                   all_stops, i, current_time, current_log, daily_logs, hos_status>>
    /\ UNCHANGED frame

(* HOSCalculator.calculate_compliance on route_data['route'] and           *)
(* route_data['stops'].                                                    *)
CalculateCompliance ==
    /\ pc = "compliance"
    /\ hos_status' = calculate_compliance(cycle_used, route, stops)
    /\ pc' = "done"
    /\ UNCHANGED <<request, response, fault, feasibility, cycle_used, route, stops,
                   fuel_stops, all_stops, i, current_time, current_log, daily_logs>>
    /\ UNCHANGED frame

CalculateComplianceFails ==
    /\ pc = "compliance"
    /\ \E t \in InternalFaults :
          /\ fault' = [stage |-> "hos_evaluation", type |-> t]
          /\ response' = ExceptionResponse(
                            HOSCalculatorRaise(Exception(t, "hos_evaluation")))
    /\ pc' = "responded"
    /\ UNCHANGED <<request, feasibility, cycle_used, route, stops, fuel_stops,
                   all_stops, i, current_time, current_log, daily_logs, hos_status>>
    /\ UNCHANGED frame

(* post, last step: the RouteResponse is built and returned with 200.      *)
Respond ==
    /\ pc = "done"
    /\ response' = Response(200, "", "",
                            <<RouteResponse(route, stops, fuel_stops, daily_logs,
                                            hos_status)>>)
    /\ pc' = "responded"
    /\ UNCHANGED <<request, fault, feasibility, cycle_used, route, stops, fuel_stops,
                   all_stops, i, current_time, current_log, daily_logs, hos_status>>
    /\ UNCHANGED frame

Next ==
    \/ Post
    \/ CalculateRoute
    \/ CalculateRouteFails
    \/ GenerateLogsBegin
    \/ AddDrivingEntry
    \/ AddStopEntry
    \/ FinishLogs
    \/ GenerateLogsFails
    \/ CalculateCompliance
    \/ CalculateComplianceFails
    \/ Respond

Spec == Init /\ [][Next]_vars

(* ------------- HOSCalculator.validate_trip_feasibility alone ----------- *)
(* The feasibility query is not part of post; it is applied here to every  *)
(* valid TripRequest and every route duration.                             *)
FeasibilityInit ==
    /\ pc = "feasibility"
    /\ cycle_used \in 0..WEEKLY_LIMIT
    /\ request = Request(RequiredFieldSet, cycle_used)
    /\ \E h \in Durations : route = [distance |-> 0, duration |-> h]
    /\ response = NoResponse
    /\ fault = NoFault
    /\ feasibility = NoFeasibility
    /\ stops = <<>>
    /\ fuel_stops = <<>>
    /\ all_stops = <<>>
    /\ i = 0
    /\ current_time = 0
    /\ current_log = DailyLog(0)
    /\ daily_logs = <<>>
    /\ hos_status = NoStatus
    /\ frame = NoFrame

ValidateTripFeasibility ==
    /\ pc = "feasibility"
    /\ feasibility' = validate_trip_feasibility(cycle_used, route.duration)
    /\ pc' = "feasibility_done"
    /\ UNCHANGED <<request, response, fault, cycle_used, route, stops, fuel_stops,
                   all_stops, i, current_time, current_log, daily_logs, hos_status>>
    /\ UNCHANGED frame

FeasibilityNext == ValidateTripFeasibility

SpecFeasibility == FeasibilityInit /\ [][FeasibilityNext]_vars

(* --------------- RouteService's stop planner alone ---------------------- *)
(* _calculate_rest_stops and _calculate_fuel_stops applied to any          *)
(* RouteData, the ones no routing provider would return included.          *)
PlannerDistances == Distances \cup {-1000, -605, -1}

PlannerDurations == Durations \cup {0 - TicksPerHour, 0 - 1}

PlannerInit ==
    /\ pc = "plan_stops"
    /\ \E d \in PlannerDistances, h \in PlannerDurations :
          route = [distance |-> d, duration |-> h]
    /\ cycle_used \in {0, 45}
    /\ request = Request(RequiredFieldSet, cycle_used)
    /\ response = NoResponse
    /\ fault = NoFault
    /\ feasibility = NoFeasibility
    /\ stops = <<>>
    /\ fuel_stops = <<>>
    /\ all_stops = <<>>
    /\ i = 0
    /\ current_time = 0
    /\ current_log = DailyLog(0)
    /\ daily_logs = <<>>
    /\ hos_status = NoStatus
    /\ frame = NoFrame

PlanStops ==
    /\ pc = "plan_stops"
    /\ stops' = calculate_rest_stops(route)
    /\ fuel_stops' = calculate_fuel_stop_list(route)
    /\ pc' = "stops_planned"
    /\ UNCHANGED <<request, response, fault, feasibility, cycle_used, route,
                   all_stops, i, current_time, current_log, daily_logs, hos_status>>
    /\ UNCHANGED frame

PlannerNext == PlanStops

SpecPlanner == PlannerInit /\ [][PlannerNext]_vars

(* ------------- the helpers' loops, one iteration per step --------------- *)
(* _add_driving_entry, _add_stop_entry and _calculate_rest_stops run on    *)
(* their own, for any activity duration, start time, stop kind and route   *)
(* distance, with each pass of a while loop a step of its own.             *)
ActivityDurations ==
    {0, 1, 50, TicksPerHour, 10 * TicksPerHour, TicksPerDay - Resolution,
     TicksPerDay, TicksPerDay + Resolution, 2 * TicksPerDay,
     MaxActivityHours * TicksPerHour}

ActivityStarts ==
    {0, Resolution, 12 * TicksPerHour, TicksPerDay - TicksPerHour,
     TicksPerDay - 2 * Resolution, TicksPerDay - Resolution}

StopTypes == {"pickup", "dropoff", "fuel", "rest", "inspection"}

(* One pass of the day-splitting while loop: the cursor and the remaining  *)
(* time after it.                                                          *)
SplitBody(c, remaining_time, status, location, src) ==
    LET end_of_day == EndOfDay(c.current_time)
        time_in_day == end_of_day - c.current_time
    IN  IF time_in_day >= remaining_time
        THEN [c |-> Cursor(c.current_time + remaining_time,
                           add_entry(c.current_log,
                                     ELDEntry(status, c.current_time,
                                              c.current_time + remaining_time,
                                              location, remaining_time, src)),
                           c.daily_logs),
              remaining_time |-> 0]
        ELSE [c |-> Cursor(StartOfNextDay(c.current_time),
                           DailyLog(Date(StartOfNextDay(c.current_time))),
                           Append(c.daily_logs,
                                  add_entry(c.current_log,
                                            ELDEntry(status, c.current_time,
                                                     end_of_day, location,
                                                     time_in_day, src)))),
              remaining_time |-> RemainingAfterDay(remaining_time, time_in_day)]

LoopsInit ==
    /\ pc \in {"add_driving_entry", "add_stop_entry", "calculate_rest_stops"}
    /\ request = Request(RequiredFieldSet, 0)
    /\ response = NoResponse
    /\ fault = NoFault
    /\ feasibility = NoFeasibility
    /\ cycle_used = 0
    /\ stops = <<>>
    /\ fuel_stops = <<>>
    /\ i = 1
    /\ daily_logs = <<>>
    /\ hos_status = NoStatus
    /\ \E t \in ActivityStarts, d \in ActivityDurations, ty \in StopTypes,
          m \in PlannerDistances :
          /\ current_time = (IF pc = "calculate_rest_stops" THEN 0 ELSE t)
          /\ all_stops = (IF pc = "add_stop_entry" THEN <<Stop(ty, "Stop", d, 0)>>
                          ELSE IF pc = "add_driving_entry"
                          THEN <<Stop("pickup", "Pickup Location", PICKUP_DURATION, 0)>>
                          ELSE <<>>)
          /\ frame = (IF pc = "add_driving_entry" THEN Frame(d, 0, 0, 0) ELSE NoFrame)
          /\ route = (IF pc = "calculate_rest_stops"
                      THEN [distance |-> m, duration |-> 0] ELSE NoRoute)
    /\ current_log = DailyLog(Date(current_time))

(* _add_driving_entry up to its while loop, or through its else branch.    *)
AddDrivingEntryEnter ==
    /\ pc = "add_driving_entry"
    /\ LET end_time == current_time + frame.drive_time
       IN  IF Date(current_time) # Date(end_time)
           THEN /\ frame' = [frame EXCEPT !.remaining_time = frame.drive_time]
                /\ pc' = "driving_split"
                /\ UNCHANGED <<current_time, current_log>>
           ELSE /\ current_log' = add_entry(current_log,
                                            ELDEntry("driving", current_time, end_time,
                                                     all_stops[i].address,
                                                     frame.drive_time, i))
                /\ current_time' = end_time
                /\ pc' = "driving_entry_added"
                /\ UNCHANGED frame
    /\ UNCHANGED <<request, response, fault, feasibility, cycle_used, route, stops,
                   fuel_stops, all_stops, i, daily_logs, hos_status>>

DrivingSplitStep ==
    /\ pc = "driving_split"
    /\ frame.remaining_time > 0
    /\ Date(current_time) < MaxSplitDays
    /\ LET b == SplitBody(Cursor(current_time, current_log, daily_logs),
                          frame.remaining_time, "driving", all_stops[i].address, i)
       IN  /\ current_time' = b.c.current_time
           /\ current_log' = b.c.current_log
           /\ daily_logs' = b.c.daily_logs
           /\ frame' = [frame EXCEPT !.remaining_time = b.remaining_time]
    /\ UNCHANGED <<pc, request, response, fault, feasibility, cycle_used, route, stops,
                   fuel_stops, all_stops, i, hos_status>>

DrivingSplitExit ==
    /\ pc = "driving_split"
    /\ ~(frame.remaining_time > 0)
    /\ pc' = "driving_entry_added"
    /\ UNCHANGED <<request, response, fault, feasibility, cycle_used, route, stops,
                   fuel_stops, all_stops, i, current_time, current_log, daily_logs,
                   hos_status, frame>>

(* _add_stop_entry up to its while loop, or through its else branch.       *)
AddStopEntryEnter ==
    /\ pc = "add_stop_entry"
    /\ LET stop == all_stops[i]
           status == StopStatus(stop.type)
           end_time == current_time + stop.duration
       IN  IF Date(current_time) # Date(end_time)
           THEN /\ frame' = [frame EXCEPT !.remaining_time = stop.duration]
                /\ pc' = "stop_split"
                /\ UNCHANGED <<current_time, current_log>>
           ELSE /\ current_log' = add_entry(current_log,
                                            ELDEntry(status, current_time, end_time,
                                                     stop.address, stop.duration, i))
                /\ current_time' = end_time
                /\ pc' = "stop_entry_added"
                /\ UNCHANGED frame
    /\ UNCHANGED <<request, response, fault, feasibility, cycle_used, route, stops,
                   fuel_stops, all_stops, i, daily_logs, hos_status>>

StopSplitStep ==
    /\ pc = "stop_split"
    /\ frame.remaining_time > 0
    /\ Date(current_time) < MaxSplitDays
    /\ LET b == SplitBody(Cursor(current_time, current_log, daily_logs),
                          frame.remaining_time, StopStatus(all_stops[i].type),
                          all_stops[i].address, i)
       IN  /\ current_time' = b.c.current_time
           /\ current_log' = b.c.current_log
           /\ daily_logs' = b.c.daily_logs
           /\ frame' = [frame EXCEPT !.remaining_time = b.remaining_time]
    /\ UNCHANGED <<pc, request, response, fault, feasibility, cycle_used, route, stops,
                   fuel_stops, all_stops, i, hos_status>>

StopSplitExit ==
    /\ pc = "stop_split"
    /\ ~(frame.remaining_time > 0)
    /\ pc' = "stop_entry_added"
    /\ UNCHANGED <<request, response, fault, feasibility, cycle_used, route, stops,
                   fuel_stops, all_stops, i, current_time, current_log, daily_logs,
                   hos_status, frame>>

(* _calculate_rest_stops up to its while loop: the pickup stop.            *)
RestStopsEnter ==
    /\ pc = "calculate_rest_stops"
    /\ stops' = <<Stop("pickup", "Pickup Location", PICKUP_DURATION, 0)>>
    /\ frame' = [frame EXCEPT !.remaining_distance = route.distance,
                              !.distance_traveled = 0]
    /\ pc' = "rest_loop"
    /\ UNCHANGED <<request, response, fault, feasibility, cycle_used, route,
                   fuel_stops, all_stops, i, current_time, current_log, daily_logs,
                   hos_status>>

RestLoopStep ==
    /\ pc = "rest_loop"
    /\ frame.remaining_distance > 0
    /\ LET max_drive_distance == MaxDriveDistance
           drive_distance == Min(max_drive_distance, frame.remaining_distance)
           traveled == frame.distance_traveled + drive_distance
       IN  /\ stops' = (IF NeedsRestStop(traveled, route.distance)
                        THEN Append(stops, Stop("rest", "Rest Area", REST_DURATION, traveled))
                        ELSE stops)
           /\ frame' = [frame EXCEPT
                           !.remaining_distance = frame.remaining_distance - drive_distance,
                           !.distance_traveled = traveled]
    /\ UNCHANGED <<pc, request, response, fault, feasibility, cycle_used, route,
                   fuel_stops, all_stops, i, current_time, current_log, daily_logs,
                   hos_status>>

(* The loop is left and the dropoff stop closes the list.                  *)
RestLoopExit ==
    /\ pc = "rest_loop"
    /\ ~(frame.remaining_distance > 0)
    /\ stops' = Append(stops, Stop("dropoff", "Dropoff Location", DROPOFF_DURATION,
                                   route.distance))
    /\ pc' = "rest_stops_returned"
    /\ UNCHANGED <<request, response, fault, feasibility, cycle_used, route,
                   fuel_stops, all_stops, i, current_time, current_log, daily_logs,
                   hos_status, frame>>

LoopsNext ==
    \/ AddDrivingEntryEnter
    \/ DrivingSplitStep
    \/ DrivingSplitExit
    \/ AddStopEntryEnter
    \/ StopSplitStep
    \/ StopSplitExit
    \/ RestStopsEnter
    \/ RestLoopStep
    \/ RestLoopExit

(* A helper, once called, keeps running: the code is sequential.           *)
SpecLoops == LoopsInit /\ [][LoopsNext]_vars /\ WF_vars(LoopsNext)

(* ======================= properties of the scheduler =================== *)
RECURSIVE FlattenEntries(_)
FlattenEntries(logs) ==
    IF logs = <<>> THEN <<>> ELSE Head(logs).entries \o FlattenEntries(Tail(logs))

RECURSIVE SumDuration(_, _)
SumDuration(entries, statuses) ==
    IF entries = <<>> THEN 0
    ELSE (IF Head(entries).status \in statuses THEN Head(entries).duration ELSE 0)
            + SumDuration(Tail(entries), statuses)

AllStatuses == {"driving", "on_duty", "sleeper", "off_duty"}

(* Every log the builder holds: the sealed ones and, while the sweep runs, *)
(* the open one.                                                           *)
LogsSoFar ==
    daily_logs \o (IF pc \in {"drive", "stop", "final_log"} THEN <<current_log>> ELSE <<>>)

Succeeded == pc = "responded" /\ response.status = 200
Planned ==
    pc \in {"generate_logs", "drive", "stop", "final_log", "compliance", "done"}
        \/ Succeeded
Merged == pc \in {"drive", "stop", "final_log", "compliance", "done"} \/ Succeeded
Returned == pc \in {"compliance", "done"} \/ Succeeded

NumOfType(ss, type) == Len(SelectSeqBy(ss, {type}))

(* C1: every entry of every log starts and ends on the same calendar date  *)
(* (no entry spans a midnight), for every start time, route duration and   *)
(* stop durations.                                                         *)
C1_NoEntrySpansMidnight ==
    \A n \in 1..Len(LogsSoFar) :
        \A k \in 1..Len(LogsSoFar[n].entries) :
            Date(LogsSoFar[n].entries[k].start_time)
                = Date(LogsSoFar[n].entries[k].end_time)

C1_Witness ==
    /\ pc = "done"
    /\ Len(daily_logs) >= 3
    /\ \E n \in 1..Len(daily_logs) : \E k \in 1..Len(daily_logs[n].entries) :
          LET e == daily_logs[n].entries[k]
          IN  e.duration > 0 /\ e.end_time = EndOfDay(e.start_time)

(* C2: in every log, total_drive_time is the sum of the durations of its   *)
(* driving entries and total_duty_time the sum of the durations of its     *)
(* driving and on_duty entries, after every add_entry.                     *)
C2_TotalsMatchEntries ==
    \A n \in 1..Len(LogsSoFar) :
        /\ LogsSoFar[n].total_drive_time
              = SumDuration(LogsSoFar[n].entries, {"driving"})
        /\ LogsSoFar[n].total_duty_time
              = SumDuration(LogsSoFar[n].entries, {"driving", "on_duty"})

C2_Witness ==
    /\ pc = "done"
    /\ \E n \in 1..Len(daily_logs) :
          /\ daily_logs[n].total_drive_time > 0
          /\ daily_logs[n].total_duty_time > daily_logs[n].total_drive_time
          /\ SumDuration(daily_logs[n].entries, {"sleeper"}) > 0

RECURSIVE LegTimeUpTo(_)
LegTimeUpTo(k) ==
    IF k < 2 THEN 0
    ELSE calculate_drive_time_between_stops(all_stops[k - 1], all_stops[k], route)
            + LegTimeUpTo(k - 1)

RECURSIVE StopTimeUpTo(_)
StopTimeUpTo(k) == IF k < 1 THEN 0 ELSE all_stops[k].duration + StopTimeUpTo(k - 1)

(* C3: the durations of all entries of all returned logs add up to the     *)
(* apportioned driving time of all legs plus the durations of all stops,   *)
(* however many midnights were crossed.                                    *)
C3_SplitConservesDuration ==
    Returned =>
        SumDuration(FlattenEntries(daily_logs), AllStatuses)
            = LegTimeUpTo(Len(all_stops)) + StopTimeUpTo(Len(all_stops))

C3_Witness ==
    /\ pc = "done"
    /\ Len(daily_logs) >= 3
    /\ route.duration > 0
    /\ SumDuration(FlattenEntries(daily_logs), AllStatuses) > 2 * TicksPerDay

(* C4: within every log the entries are chronological and contiguous: no   *)
(* entry ends before it starts and each entry after the first starts where *)
(* the one before it ended.                                                *)
C4_EntriesContiguous ==
    \A n \in 1..Len(LogsSoFar) :
        \A k \in 1..Len(LogsSoFar[n].entries) :
            /\ LogsSoFar[n].entries[k].end_time >= LogsSoFar[n].entries[k].start_time
            /\ k > 1 => LogsSoFar[n].entries[k].start_time
                            = LogsSoFar[n].entries[k - 1].end_time

C4_Witness ==
    /\ pc = "done"
    /\ \E n \in 2..Len(daily_logs) : Len(daily_logs[n].entries) >= 3

(* C5: for distance D the planner returns pickup, then one 10-hour rest    *)
(* stop after each 605-mile segment but the last (ceil(D/605) - 1 of them  *)
(* when D > 0, none when D <= 605), then dropoff.                          *)
C5_RestStopsPerSegment ==
    Planned =>
        LET D == route.distance
            n == IF D = 0 THEN 0 ELSE (D + 604) \div 605 - 1
        IN  /\ Len(stops) = n + 2
            /\ stops[1].type = "pickup"
            /\ stops[Len(stops)].type = "dropoff"
            /\ \A k \in 1..n :
                  /\ stops[k + 1].type = "rest"
                  /\ stops[k + 1].duration = 10 * TicksPerHour
                  /\ stops[k + 1].mile = 605 * k
            /\ D <= 605 => Len(stops) = 2

C5_Witness ==
    /\ Planned
    /\ route.distance = 1815
    /\ Len(stops) = 4
    /\ stops[3].type = "rest"

(* C6 as stated: a 1300-mile route gets exactly one rest stop.             *)
C6_OneRestStopAt1300 ==
    (Planned /\ route.distance = 1300) => NumOfType(stops, "rest") = 1

(* C6: a 1300-mile route gets exactly two rest stops, after mile 605 and   *)
(* after mile 1210.                                                        *)
C6_TwoRestStopsAt1300 ==
    (Planned /\ route.distance = 1300) =>
        /\ NumOfType(stops, "rest") = 2
        /\ stops[2].mile = 605
        /\ stops[3].mile = 1210

C6_Witness ==
    /\ Planned
    /\ route.distance = 1300
    /\ NumOfType(stops, "rest") = 2

(* C7: the fuel stops are one 0.5-hour stop at each mile marker 1000*k     *)
(* strictly below the distance, in increasing order: none up to 1000       *)
(* miles, marker 1000 only at 1300, markers 1000 and 2000 at 2200, and     *)
(* none at the endpoint of an exact multiple of 1000.                      *)
C7_FuelStopsBelowDistance ==
    Planned =>
        LET D == route.distance
            n == Cardinality({k \in 1..(D \div 1000 + 1) : 1000 * k < D})
        IN  /\ Len(fuel_stops) = n
            /\ \A k \in 1..n :
                  /\ fuel_stops[k].type = "fuel"
                  /\ fuel_stops[k].mile = 1000 * k
                  /\ 2 * fuel_stops[k].duration = TicksPerHour
            /\ D <= 1000 => fuel_stops = <<>>
            /\ D = 1300 => Len(fuel_stops) = 1
            /\ D = 2200 => Len(fuel_stops) = 2
            /\ D % 1000 = 0 =>
                  \A k \in 1..Len(fuel_stops) : fuel_stops[k].mile # D

C7_Witness ==
    /\ Planned
    /\ route.distance = 2000
    /\ Len(fuel_stops) = 1
    /\ fuel_stops[1].mile = 1000

Rank(type) ==
    CASE type = "pickup" -> 1
      [] type = "fuel" -> 2
      [] type = "rest" -> 3
      [] type = "dropoff" -> 4
      [] OTHER -> 5

Positions(s) == {j \in 1..Len(all_stops) : all_stops[j] = s}

Pos(s) == CHOOSE j \in 1..Len(all_stops) : all_stops[j] = s

RECURSIVE StopEntries(_)
StopEntries(entries) ==
    IF entries = <<>> THEN <<>>
    ELSE (IF Head(entries).status # "driving" THEN <<Head(entries)>> ELSE <<>>)
            \o StopEntries(Tail(entries))

(* C8: the builder walks pickup, all fuel stops, all rest stops, dropoff;  *)
(* every planner stop is in the walk exactly once, stops of one kind keep  *)
(* the planner's relative order, and the stop entries of the logs follow   *)
(* the walk's order, each stop logged by the end.                          *)
C8_WalkOrder ==
    Merged =>
        LET E == StopEntries(FlattenEntries(LogsSoFar))
        IN  /\ Len(all_stops) = Len(stops) + Len(fuel_stops)
            /\ \A k, l \in 1..Len(all_stops) :
                  k < l => Rank(all_stops[k].type) <= Rank(all_stops[l].type)
            /\ \A k \in 1..Len(stops) : Cardinality(Positions(stops[k])) = 1
            /\ \A k \in 1..Len(fuel_stops) : Cardinality(Positions(fuel_stops[k])) = 1
            /\ \A k, l \in 1..Len(stops) :
                  (k < l /\ stops[k].type = stops[l].type)
                      => Pos(stops[k]) < Pos(stops[l])
            /\ \A k, l \in 1..Len(fuel_stops) :
                  k < l => Pos(fuel_stops[k]) < Pos(fuel_stops[l])
            /\ \A a, b \in 1..Len(E) : a < b => E[a].src <= E[b].src
            /\ \A a \in 1..Len(E) : E[a].location = all_stops[E[a].src].address
            /\ Returned => {E[a].src : a \in 1..Len(E)} = 1..Len(all_stops)

C8_Witness ==
    /\ pc = "done"
    /\ Len(fuel_stops) = 2
    /\ NumOfType(stops, "rest") = 3
    /\ all_stops[2].type = "fuel"
    /\ all_stops[4].type = "rest"

(* C9: duty_time_today is min(route duration + the durations of every      *)
(* on-duty stop the planner emitted, the fuel stops included, 14 hours).   *)
C9_DutyTimeCountsFuelStops ==
    pc = "done" =>
        hos_status.duty_time_today
            = Min(route.duration + OnDutyStopTime(stops \o fuel_stops),
                  14 * TicksPerHour)

(* C10: the weekly-cycle violation is listed exactly when cycle_used +     *)
(* duty_time_today > 70 (present for cycle_used 68 and 5 hours, absent,    *)
(* with no other violation, for cycle_used 10 and 5 hours), and the list   *)
(* is empty exactly when cycle_used + duty_time_today <= 70 and the route  *)
(* duration is at most 11 hours.                                           *)
C10_CycleViolation ==
    pc = "done" =>
        LET V == {hos_status.violations[k] : k \in 1..Len(hos_status.violations)}
            over == cycle_used * TicksPerHour + hos_status.duty_time_today
                        > 70 * TicksPerHour
        IN  /\ (CYCLE_EXCEEDED \in V) <=> over
            /\ (cycle_used = 68 /\ route.duration = 5 * TicksPerHour)
                  => CYCLE_EXCEEDED \in V
            /\ (cycle_used = 10 /\ route.duration = 5 * TicksPerHour)
                  => hos_status.violations = <<>>
            /\ (hos_status.violations = <<>>)
                  <=> (~over /\ route.duration <= 11 * TicksPerHour)

C10_Witness ==
    /\ pc = "done"
    /\ cycle_used = 68
    /\ route.duration = 5 * TicksPerHour
    /\ hos_status.violations = <<CYCLE_EXCEEDED>>

(* C11 as stated: for cycle_used 45 and a 2200-mile, 40-hour route the     *)
(* evaluation lists both the daily drive-limit violation and the           *)
(* multi-day-planning violation.                                           *)
C11_DriveLimitAndMultiDay ==
    (pc = "done" /\ cycle_used = 45 /\ route.distance = 2200
        /\ route.duration = 40 * TicksPerHour)
    => /\ \E k \in 1..Len(hos_status.violations) :
             hos_status.violations[k] = DRIVE_LIMIT_MSG
       /\ \E k \in 1..Len(hos_status.violations) :
             hos_status.violations[k] = MULTI_DAY

(* C12: a trip is feasible exactly when the route duration is at most      *)
(* min(11, 70 - cycle_used) hours; an infeasible one names the multi-day   *)
(* reason when the duration exceeds 11 hours and the insufficient-cycle    *)
(* reason otherwise (so 15 hours is infeasible for the multi-day reason    *)
(* whatever cycle_used is), and a feasible result has no reason.           *)
C12_Feasibility ==
    pc = "feasibility_done" =>
        LET d == route.duration
            eff == Min(11, 70 - cycle_used) * TicksPerHour
        IN  /\ feasibility.feasible <=> d <= eff
            /\ ~feasibility.feasible =>
                  feasibility.reason = IF d > 11 * TicksPerHour
                                       THEN MULTI_DAY_REASON
                                       ELSE INSUFFICIENT_REASON
            /\ d = 15 * TicksPerHour =>
                  ~feasibility.feasible /\ feasibility.reason = MULTI_DAY_REASON
            /\ feasibility.feasible => "reason" \notin DOMAIN feasibility

C12_Witness ==
    /\ pc = "feasibility_done"
    /\ route.duration = 15 * TicksPerHour
    /\ cycle_used = 70
    /\ ~feasibility.feasible
    /\ feasibility.reason = MULTI_DAY_REASON

RequestComplete == request.present = RequiredFieldSet

CycleInRange == 0 <= request.cycle_used /\ request.cycle_used <= 70

InPipeline ==
    pc \in {"calculate_route", "generate_logs", "drive", "stop", "final_log",
            "compliance", "done"}

NothingStarted ==
    /\ route = NoRoute
    /\ stops = <<>>
    /\ fuel_stops = <<>>
    /\ all_stops = <<>>
    /\ daily_logs = <<>>
    /\ hos_status = NoStatus
    /\ fault = NoFault

(* C13: constructing the TripRequest fails with the ValueError for every   *)
(* cycle_used outside [0, 70] and succeeds for every cycle_used in 0..70,  *)
(* so the planner, the log builder and the HOS checker only ever see a     *)
(* cycle_used in 0..70.                                                    *)
C13_CycleUsedValidated ==
    /\ (pc # "post" /\ RequestComplete /\ ~CycleInRange) =>
          /\ pc = "responded"
          /\ response.status = 400
          /\ response.error = CYCLE_RANGE_MSG
          /\ NothingStarted
    /\ (pc # "post" /\ RequestComplete /\ CycleInRange) =>
          /\ response.status # 400
          /\ cycle_used = request.cycle_used
    /\ (InPipeline \/ ~NothingStarted) => (0 <= cycle_used /\ cycle_used <= 70)

C13_Witness ==
    /\ pc = "responded"
    /\ RequestComplete
    /\ request.cycle_used = 71
    /\ response.error = CYCLE_RANGE_MSG

(* C14 as stated: a route with a negative distance or a negative duration  *)
(* is rejected before planning, so the planner returns no stop list for    *)
(* it.                                                                     *)
C14_NegativeRouteRejected ==
    (pc = "stops_planned" /\ (route.distance < 0 \/ route.duration < 0))
        => (stops = <<>> /\ fuel_stops = <<>>)

C15_Rejected ==
    (~RequestComplete \/ ~CycleInRange) =>
        /\ pc \in {"post", "responded"}
        /\ NothingStarted
        /\ pc = "responded" =>
              /\ response.status = 400
              /\ response.body = <<>>
              /\ ~RequestComplete =>
                    /\ response.error = MISSING_FIELD_MSG
                    /\ response.field = FirstMissing(required_fields, request.present)
                    /\ response.field \notin request.present
              /\ RequestComplete => response.error = CYCLE_RANGE_MSG

C15_Answered ==
    (pc = "post" /\ (~RequestComplete \/ ~CycleInRange))
        => (pc' = "responded" /\ response'.status = 400)

C16_FailureIsGeneric ==
    /\ fault # NoFault =>
          /\ pc = "responded"
          /\ response = Response(500, GENERIC_ERROR, "", <<>>)
    /\ response.status \in {0, 200, 400, 500}
    /\ response.status # 200 => response.body = <<>>
    /\ response.status = 200 =>
          /\ fault = NoFault
          /\ Len(response.body) = 1
          /\ DOMAIN response.body[1]
                = {"route", "stops", "fuel_stops", "eld_logs", "hos_status"}
          /\ response.body[1].route = route
          /\ response.body[1].stops = stops /\ Len(stops) >= 2
          /\ response.body[1].fuel_stops = fuel_stops
          /\ response.body[1].eld_logs = daily_logs /\ daily_logs # <<>>
          /\ response.body[1].hos_status = hos_status
          /\ hos_status.remaining_hours = 70 - cycle_used

C16_Witness ==
    /\ pc = "responded"
    /\ fault = [stage |-> "log_building", type |-> "ValueError"]
    /\ daily_logs # <<>>
    /\ response.status = 500

(* The driving time logged for the leg into stop k.                        *)
RECURSIVE DrivingOfLeg(_, _)
DrivingOfLeg(entries, k) ==
    IF entries = <<>> THEN 0
    ELSE (IF Head(entries).status = "driving" /\ Head(entries).src = k
          THEN Head(entries).duration ELSE 0) + DrivingOfLeg(Tail(entries), k)

LegDone(k) == k < i \/ (k = i /\ pc = "stop")

(* Tenths: 2 after the pickup, else 3 into the dropoff, else 5.            *)
LegWeight(k) ==
    IF all_stops[k - 1].type = "pickup" THEN 2
    ELSE IF all_stops[k].type = "dropoff" THEN 3
    ELSE 5

(* C17: the driving time logged for the leg between two consecutive stops  *)
(* is routeDuration/5 times 0.2 after the pickup, 0.3 into the dropoff and *)
(* 0.5 otherwise; a leg from the pickup straight to the dropoff gets 0.2.  *)
C17_LegWeights ==
    Merged =>
        \A k \in 2..Len(all_stops) :
            LegDone(k) =>
                /\ 50 * DrivingOfLeg(FlattenEntries(LogsSoFar), k)
                      = LegWeight(k) * route.duration
                /\ (all_stops[k - 1].type = "pickup" /\ all_stops[k].type = "dropoff")
                      => 50 * DrivingOfLeg(FlattenEntries(LogsSoFar), k)
                            = 2 * route.duration

C17_Witness ==
    /\ pc = "done"
    /\ Len(all_stops) = 2
    /\ route.duration = 40 * TicksPerHour
    /\ DrivingOfLeg(FlattenEntries(daily_logs), 2) = 160

(* C18 as stated: for a route with duration > 0 the first entry of the     *)
(* first log is a driving entry (the segment before the first stop).       *)
C18_FirstEntryIsDriving ==
    (Returned /\ route.duration > 0) => daily_logs[1].entries[1].status = "driving"

RECURSIVE SumDriveTotals(_)
SumDriveTotals(logs) ==
    IF logs = <<>> THEN 0 ELSE Head(logs).total_drive_time + SumDriveTotals(Tail(logs))

(* C19 as stated: the driving entries of all logs (the total_drive_time of *)
(* the logs) add up to the route's total duration.                         *)
C19_DrivingSumsToRouteDuration ==
    Returned =>
        /\ SumDuration(FlattenEntries(daily_logs), {"driving"}) = route.duration
        /\ SumDriveTotals(daily_logs) = route.duration

C20_Dates ==
    /\ \A n \in 1..Len(daily_logs) :
          /\ daily_logs[n].entries # <<>>
          /\ \A k \in 1..Len(daily_logs[n].entries) :
                /\ Date(daily_logs[n].entries[k].start_time) = daily_logs[n].date
                /\ Date(daily_logs[n].entries[k].end_time) = daily_logs[n].date
          /\ n > 1 => daily_logs[n].date = daily_logs[n - 1].date + 1
    /\ pc \in {"drive", "stop", "final_log"} =>
          /\ \A k \in 1..Len(current_log.entries) :
                Date(current_log.entries[k].start_time) = current_log.date
          /\ daily_logs # <<>> =>
                current_log.date = daily_logs[Len(daily_logs)].date + 1

C20_Seal ==
    /\ Len(daily_logs') >= Len(daily_logs)
    /\ \A n \in 1..Len(daily_logs) : daily_logs'[n] = daily_logs[n]
    /\ (pc \in {"drive", "stop"} /\ Len(daily_logs') > Len(daily_logs)) =>
          /\ daily_logs'[Len(daily_logs) + 1].date = current_log.date
          /\ current_log'.date = daily_logs'[Len(daily_logs')].date + 1
          /\ current_log'.entries # <<>> =>
                current_log'.entries[1].start_time = current_log'.date * TicksPerDay
          /\ current_time' >= current_log'.date * TicksPerDay

(* C20: at a day boundary the current log is sealed and appended and a new *)
(* log is opened at 00:00:00 of the next date; the logs returned have      *)
(* consecutive, strictly increasing dates, each has at least one entry,    *)
(* every entry lies on its log's date, and a sealed log is never changed.  *)
C20_DayBoundary == [](C20_Dates) /\ [][C20_Seal]_vars

C20_Witness ==
    /\ pc = "done"
    /\ Len(daily_logs) >= 4
    /\ \A n \in 2..Len(daily_logs) :
          daily_logs[n].entries[1].start_time = daily_logs[n].date * TicksPerDay

(* The start of the activity a helper was called with: the start of the    *)
(* first entry it logged.                                                  *)
ActivityStart ==
    IF daily_logs # <<>> THEN daily_logs[1].entries[1].start_time
    ELSE IF current_log.entries # <<>> THEN current_log.entries[1].start_time
    ELSE current_time

ActivityCursor == Cursor(ActivityStart, DailyLog(Date(ActivityStart)), <<>>)

C21_LoopExit ==
    /\ pc \in {"driving_split", "stop_split"} => frame.remaining_time >= 0
    /\ pc = "driving_entry_added" =>
          /\ frame.remaining_time = 0
          /\ Cursor(current_time, current_log, daily_logs)
                = add_driving_entry(ActivityCursor, frame.drive_time,
                                    all_stops[i].address, i)
          /\ current_time >= ActivityStart + frame.drive_time
    /\ pc = "stop_entry_added" =>
          /\ frame.remaining_time = 0
          /\ Cursor(current_time, current_log, daily_logs)
                = add_stop_entry(ActivityCursor, all_stops[i], i)
          /\ current_time >= ActivityStart + all_stops[i].duration
    /\ pc = "rest_stops_returned" =>
          /\ ~(frame.remaining_distance > 0)
          /\ route.distance >= 0 => frame.remaining_distance = 0
          /\ stops = calculate_rest_stops(route)

C21_Returned ==
    pc \in {"driving_entry_added", "stop_entry_added", "rest_stops_returned"}

(* C21: the day-splitting loop of _add_driving_entry and _add_stop_entry   *)
(* is left, with the remaining duration at zero, for every non-negative    *)
(* activity duration and every start time, and the segment loop of         *)
(* _calculate_rest_stops is left for every route distance: each helper     *)
(* eventually returns.                                                     *)
C21_LoopsTerminate == [](C21_LoopExit) /\ <>(C21_Returned)

C21_Witness ==
    /\ pc = "driving_entry_added"
    /\ frame.drive_time = MaxActivityHours * TicksPerHour
    /\ frame.remaining_time = 0
    /\ Len(daily_logs) >= 2

(* The stop _add_stop_entry is logging, and every log it has written to.   *)
LoggedStop == all_stops[i]

StopLogs == daily_logs \o <<current_log>>

(* C22: every piece of a stop, split over days or not, is logged with the  *)
(* status of the stop's kind: pickup, dropoff and fuel on_duty, rest       *)
(* sleeper, any other kind off_duty; a rest stop adds nothing to any log's *)
(* total_duty_time or total_drive_time, a pickup, dropoff or fuel stop     *)
(* adds its hours to total_duty_time only.                                 *)
C22_StopStatusByKind ==
    pc \in {"stop_split", "stop_entry_added"} =>
        /\ \A n \in 1..Len(StopLogs) :
              /\ \A k \in 1..Len(StopLogs[n].entries) :
                    StopLogs[n].entries[k].status
                        = CASE LoggedStop.type \in {"pickup", "dropoff", "fuel"} -> "on_duty"
                            [] LoggedStop.type = "rest" -> "sleeper"
                            [] OTHER -> "off_duty"
              /\ StopLogs[n].total_drive_time = 0
              /\ StopLogs[n].total_duty_time
                    = (IF LoggedStop.type \in {"pickup", "dropoff", "fuel"}
                       THEN SumDuration(StopLogs[n].entries, AllStatuses) ELSE 0)
        /\ pc = "stop_entry_added" =>
              SumDuration(FlattenEntries(StopLogs), AllStatuses) = LoggedStop.duration

C22_Witness ==
    /\ pc = "stop_entry_added"
    /\ LoggedStop.type = "rest"
    /\ LoggedStop.duration = 10 * TicksPerHour
    /\ Len(daily_logs) = 1
    /\ daily_logs[1].entries[1].status = "sleeper"
    /\ current_log.entries[1].status = "sleeper"
    /\ current_log.total_duty_time = 0

(* C23: the HOSStatus of calculate_compliance has drive_time_today <= 11,  *)
(* duty_time_today <= 14 and remaining_hours = 70 - cycle_used in 0..70,   *)
(* and, both estimates being capped before the limits are tested, its      *)
(* violations never hold the daily drive-limit or the daily duty-limit     *)
(* message.                                                                *)
C23_EstimatesCapped ==
    hos_status # NoStatus =>
        /\ hos_status.drive_time_today <= 11 * TicksPerHour
        /\ hos_status.duty_time_today <= 14 * TicksPerHour
        /\ hos_status.remaining_hours = 70 - cycle_used
        /\ hos_status.remaining_hours \in 0..70
        /\ \A k \in 1..Len(hos_status.violations) :
              hos_status.violations[k] \notin {DRIVE_LIMIT_MSG, DUTY_LIMIT_MSG}

C23_Witness ==
    /\ pc = "done"
    /\ route.duration = 40 * TicksPerHour
    /\ hos_status.drive_time_today = 11 * TicksPerHour
    /\ hos_status.duty_time_today = 14 * TicksPerHour
    /\ hos_status.violations # <<>>

====
